---- MODULE Spec2Model ----
(***************************************************************************)
(* Model of src/components/PrimaryChart/index.tsx (MainChart).             *)
(*                                                                         *)
(* State: the props of the current render (data, width, height, margin),   *)
(* the two memoized scales, the useTooltip state, and a record of the last *)
(* dispatched event together with the locals handleTooltip computed.       *)
(*                                                                         *)
(* Numbers: dates are integer millisecond time values (what new Date(..)   *)
(* .valueOf() yields), prices and pixels of the props are integers.  The   *)
(* scales are evaluated in exact rational arithmetic ([num, den] in lowest *)
(* terms) where the library uses IEEE doubles; new Date(number) truncates  *)
(* toward zero (TimeClip), which is modelled.                              *)
(***************************************************************************)
EXTENDS Integers, Sequences, FiniteSets, TLC

VARIABLES data, width, height, margin,
          dateScale, priceScale,
          tooltipOpen, tooltipData, tooltipLeft, tooltipTop,
          event, error

props == <<data, width, height, margin>>
scales == <<dateScale, priceScale>>
tooltip == <<tooltipOpen, tooltipData, tooltipLeft, tooltipTop>>
vars == <<data, width, height, margin, dateScale, priceScale,
          tooltipOpen, tooltipData, tooltipLeft, tooltipTop, event, error>>

----------------------------------------------------------------------------
(* Bounds of the model: the longest data sequence, the latest date (ms),   *)
(* the size of the svg, the widest margin, how far outside the svg a touch *)
(* may move, and the longest data sequence of the re-rendering             *)
(* specification                                                           *)

MaxLen == 3
MaxDate == 3
MaxWidth == 4
MaxHeight == 4
MaxMargin == 1
Overshoot == 1
MaxRenderLen == 2

(* JavaScript values: undefined, a Date (its time value, or Invalid Date)  *)
(* Records of different shapes, so that any two values can be compared.   *)
Undefined == [undefined |-> TRUE]
InvalidDate == [invalid |-> TRUE]
Date(t) == [time |-> t]

Prices == {3, 18}
Dates == 0..MaxDate
DataProps == [date : Dates, price : Prices]

----------------------------------------------------------------------------
(* Arithmetic helpers *)

Abs(n) == IF n < 0 THEN 0 - n ELSE n

Max(a, b) == IF a >= b THEN a ELSE b

RECURSIVE GCD(_, _)
GCD(a, b) == IF b = 0 THEN a ELSE GCD(b, a % b)

(* a rational number n/d, d > 0, in lowest terms *)
Rat(n, d) ==
    LET g == GCD(Abs(n), d)
    IN  [num |-> n \div g, den |-> d \div g]

RatLeq(p, q) == p.num * q.den <= q.num * p.den

FloorDiv(n, d) == n \div d

CeilDiv(n, d) == 0 - ((0 - n) \div d)

(* ToIntegerOrInfinity inside TimeClip: truncation toward zero *)
TimeClip(n, d) == IF n >= 0 THEN n \div d ELSE 0 - ((0 - n) \div d)

(* data[i] of a JavaScript array (0-based); undefined out of range *)
At(a, i) == IF i >= 0 /\ i < Len(a) THEN a[i + 1] ELSE Undefined

----------------------------------------------------------------------------
(* accessors *)

getDate(d) == Date(TimeClip(d.date, 1))

getStockValue(d) == d.price

IsSorted(a) ==
    \A i \in 1..(Len(a) - 1) : getDate(a[i]).time <= getDate(a[i + 1]).time

----------------------------------------------------------------------------
(* d3-array reductions used to build the scale domains *)

RECURSIVE MinOver(_, _)
MinOver(a, i) ==
    IF i = Len(a) THEN a[i]
    ELSE LET r == MinOver(a, i + 1) IN IF a[i] < r THEN a[i] ELSE r

RECURSIVE MaxOver(_, _)
MaxOver(a, i) ==
    IF i = Len(a) THEN a[i]
    ELSE LET r == MaxOver(a, i + 1) IN IF a[i] > r THEN a[i] ELSE r

(* min(data, accessor): <<v>> for the least value, <<>> (undefined) for an *)
(* empty array                                                             *)
min(vals) == IF Len(vals) = 0 THEN <<>> ELSE <<MinOver(vals, 1)>>

(* max(data, accessor): <<v>>, or <<>> (undefined) for an empty array *)
max(vals) == IF Len(vals) = 0 THEN <<>> ELSE <<MaxOver(vals, 1)>>

(* extent(data, getDate) as [Date, Date]: the scale coerces undefined to   *)
(* NaN, an Invalid Date                                                    *)
extent(a) ==
    LET ds == [i \in 1..Len(a) |-> getDate(a[i]).time]
    IN  IF Len(a) = 0 THEN <<InvalidDate, InvalidDate>>
        ELSE <<Date(min(ds)[1]), Date(max(ds)[1])>>

(* v || 0 for v a number or undefined *)
OrZero(v) == IF v = <<>> \/ v = <<0>> THEN 0 ELSE v[1]

----------------------------------------------------------------------------
(* scaleLinear({nice: true}): d3's tickIncrement and nice, count = 10.     *)
(* A positive result s is the step s; a negative result -k is the step 1/k *)

RECURSIVE FloorLog10(_)
FloorLog10(n) == IF n < 10 THEN 0 ELSE 1 + FloorLog10(n \div 10)

RECURSIVE Pow10(_)
Pow10(k) == IF k = 0 THEN 1 ELSE 10 * Pow10(k - 1)

(* for integers start < stop *)
tickIncrement(start, stop) ==
    LET D == stop - start
        power == FloorLog10(D) - 1
        P1 == Pow10(power + 1)
        factor == IF D * D >= 50 * P1 * P1 THEN 10
                  ELSE IF D * D >= 10 * P1 * P1 THEN 5
                  ELSE IF D * D >= 2 * P1 * P1 THEN 2
                  ELSE 1
    IN  IF power >= 0 THEN factor * Pow10(power)
        ELSE 0 - (10 \div factor)

(* the loop of scale.nice(); <<>> when it gives up after maxIter rounds    *)
(* and leaves the domain as it was.  With a step 1/k the bounds are *)
(* rounded to multiples of 1/k, which integers already are.                *)
RECURSIVE niceLoop(_, _, _, _)
niceLoop(start, stop, prestep, maxIter) ==
    IF maxIter = 0 THEN <<>>
    ELSE LET step == tickIncrement(start, stop)
         IN  IF step = prestep THEN <<start, stop>>
             ELSE IF step > 0
                  THEN niceLoop(FloorDiv(start, step) * step,
                                CeilDiv(stop, step) * step, step, maxIter - 1)
                  ELSE niceLoop(start, stop, step, maxIter - 1)

(* scale.nice() on the domain <<lo, hi>>, lo <= hi.  For lo = hi the tick  *)
(* increment is -Infinity, the rounded bounds are NaN, the loop breaks and *)
(* the domain stays as it was.                                             *)
nice(domain) ==
    IF domain[1] = domain[2] THEN domain
    ELSE LET r == niceLoop(domain[1], domain[2], 0, 10)
         IN  IF r = <<>> THEN domain ELSE r

----------------------------------------------------------------------------
(* bounds *)

xMaxOf(w, m) == Max(w - m.left - m.right, 0)

yMaxOf(h, m) == Max(h - m.top - m.bottom, 0)

xMax == xMaxOf(width, margin)

yMax == yMaxOf(height, margin)

(* scales *)

makeDateScale(a, w, m) ==
    [range |-> <<0, xMaxOf(w, m)>>, domain |-> extent(a)]

(* variant: the range is not inverted *)
priceRange_NotInverted(h, m) == <<m.top, yMaxOf(h, m) + m.top>>

priceRange(h, m) == <<yMaxOf(h, m) + m.top, m.top>>

makePriceScale(a, h, m) ==
    LET ps == [i \in 1..Len(a) |-> getStockValue(a[i])]
    IN  [range |-> priceRange(h, m),
         domain |-> nice(<<OrZero(min(ps)), OrZero(max(ps))>>)]

(* normalize(a, b)(x) of d3-scale as a fraction <<n, d>>, d > 0: the       *)
(* constant 1/2 when the interval is empty                                  *)
normalize(a, b, x) == IF b - a = 0 THEN <<1, 2>> ELSE <<x - a, b - a>>

(* interpolateNumber(a, b)(t) = a * (1 - t) + b * t, for t = n/d           *)
interpolateNumber(a, b, t) == <<a * (t[2] - t[1]) + b * t[1], t[2]>>

(* scale(v) of a continuous scale with a numeric domain lo <= hi *)
scaleApply(s, v) ==
    LET t == normalize(s.domain[1], s.domain[2], v)
        y == interpolateNumber(s.range[1], s.range[2], t)
    IN  Rat(y[1], y[2])

(* dateScale(d) for a valid Date d and a valid domain *)
dateApply(s, d) ==
    scaleApply([range |-> s.range,
                domain |-> <<s.domain[1].time, s.domain[2].time>>], d.time)

(* dateScale.invert(y): new Date(interpolated time value); an Invalid Date *)
(* when the domain is [NaN, NaN]                                           *)
invert(s, y) ==
    IF s.domain[1] = InvalidDate THEN InvalidDate
    ELSE LET t == normalize(s.range[1], s.range[2], y)
             v == interpolateNumber(s.domain[1].time, s.domain[2].time, t)
         IN  Date(TimeClip(v[1], v[2]))

----------------------------------------------------------------------------
(* bisector(getDate).left(a, x, lo, hi): binary search for the first index *)
(* in lo..hi whose date is not less than x; a comparison with an Invalid   *)
(* Date is false                                                           *)

RECURSIVE bisectLeft(_, _, _, _)
bisectLeft(a, x, lo, hi) ==
    IF lo < hi
    THEN LET mid == (lo + hi) \div 2
         IN  IF x # InvalidDate /\ getDate(At(a, mid)).time < x.time
             THEN bisectLeft(a, x, mid + 1, hi)
             ELSE bisectLeft(a, x, lo, mid)
    ELSE lo

(* variant: the search starts at index 0 *)
bisectDate_FromZero(a, x0) == bisectLeft(a, x0, 0, Len(a))

bisectDate(a, x0) == bisectLeft(a, x0, 1, Len(a))

(* the locals of handleTooltip *)

(* variant: the left margin is not subtracted *)
currXOf_NoMargin(x, m) == x

currXOf(x, m) == x - m.left

(* variant: the bracketing pair is taken one too far to the right *)
d0Of_OffByOne(a, index) == At(a, index)

d0Of(a, index) == At(a, index - 1)

d1Of(a, index) == At(a, index)

(* variant: a tie goes to d1 *)
picksAfter_TieAfter(x0, d0, d1) ==
    x0.time - getDate(d0).time >= getDate(d1).time - x0.time

(* variant: the comparison is the wrong way round *)
picksAfter_Inverted(x0, d0, d1) ==
    x0.time - getDate(d0).time < getDate(d1).time - x0.time

(* the conditional expression that picks d1 or d0: TRUE for d1 *)
picksAfter(x0, d0, d1) ==
    x0.time - getDate(d0).time > getDate(d1).time - x0.time

(* index (0-based) of the element handleTooltip ends up with in d *)
pickOf(a, x0, index) ==
    IF d1Of(a, index) # Undefined /\ picksAfter(x0, d0Of(a, index), d1Of(a, index))
    THEN index
    ELSE index - 1

(* variant: an open tooltip is not updated *)
showTooltip_KeepOpen(args) ==
    IF tooltipOpen
    THEN UNCHANGED <<tooltipOpen, tooltipData, tooltipLeft, tooltipTop>>
    ELSE /\ tooltipOpen' = TRUE
         /\ tooltipData' = args.tooltipData
         /\ tooltipLeft' = args.tooltipLeft
         /\ tooltipTop' = args.tooltipTop

(* variant: only the open flag is cleared *)
hideTooltip_KeepData ==
    /\ tooltipOpen' = FALSE
    /\ UNCHANGED <<tooltipData, tooltipLeft, tooltipTop>>

(* useTooltip: showTooltip and hideTooltip replace the whole tooltip state *)
showTooltip(args) ==
    /\ tooltipOpen' = TRUE
    /\ tooltipData' = args.tooltipData
    /\ tooltipLeft' = args.tooltipLeft
    /\ tooltipTop' = args.tooltipTop

hideTooltip ==
    /\ tooltipOpen' = FALSE
    /\ tooltipData' = Undefined
    /\ tooltipLeft' = Undefined
    /\ tooltipTop' = Undefined

(* handleTooltip for an event whose localPoint is x.  Reading a property   *)
(* of undefined (getDate(d0), getStockValue(d)) throws a TypeError: the    *)
(* handler ends there and showTooltip is not called.                       *)
handleTooltip(type, x) ==
    LET currX == currXOf(x, margin)
        x0 == invert(dateScale, currX)
        index == bisectDate(data, x0)
        d0 == d0Of(data, index)
        d1 == d1Of(data, index)
        throwsAtGetDate == d1 # Undefined /\ d0 = Undefined
        pick == IF throwsAtGetDate THEN index - 1 ELSE pickOf(data, x0, index)
        d == At(data, pick)
        throws == throwsAtGetDate \/ d = Undefined
    IN  /\ event' = [type |-> type, x |-> x, x0 |-> x0, index |-> index,
                     d0 |-> d0, d1 |-> d1, pick |-> pick, d |-> d]
        /\ IF throws
           THEN /\ error' = "TypeError"
                /\ UNCHANGED tooltip
           ELSE /\ error' = "none"
                /\ showTooltip([tooltipData |-> d,
                                tooltipLeft |-> Rat(x, 1),
                                tooltipTop |-> scaleApply(priceScale, getStockValue(d))])
        /\ UNCHANGED <<props, scales>>

----------------------------------------------------------------------------
(* what the render draws *)

(* the transparent Bar that takes the pointer events has an area *)
BarRendered == xMax > 0 /\ yMax > 0

GuideRendered == tooltipData # Undefined

LabelRendered == tooltipData # Undefined

(* localPoint of an event on the Bar, in svg pixels *)
BarXs == margin.left..(margin.left + xMax)

(* localPoint of a touch that moved on, possibly off the Bar *)
TouchXs == (0 - Overshoot)..(width + Overshoot)

----------------------------------------------------------------------------
(* The props a parent can pass *)

Widths == {0, MaxWidth}

Heights == {0, MaxHeight}

Margins == {[top |-> t, right |-> t, bottom |-> t, left |-> t] : t \in 0..MaxMargin}

DataSeqs == {a \in UNION {[1..n -> DataProps] : n \in 0..MaxLen} : IsSorted(a)}

Init ==
    /\ data \in DataSeqs
    /\ width \in Widths
    /\ height \in Heights
    /\ margin \in Margins
    /\ dateScale = makeDateScale(data, width, margin)
    /\ priceScale = makePriceScale(data, height, margin)
    /\ tooltipOpen = FALSE
    /\ tooltipData = Undefined
    /\ tooltipLeft = Undefined
    /\ tooltipTop = Undefined
    /\ event = [type |-> "none"]
    /\ error = "none"

OnMouseMove(x) ==
    /\ BarRendered
    /\ x \in BarXs
    /\ handleTooltip("mousemove", x)

OnTouchStart(x) ==
    /\ BarRendered
    /\ x \in BarXs
    /\ handleTooltip("touchstart", x)

OnTouchMove(x) ==
    /\ BarRendered
    /\ x \in TouchXs
    /\ handleTooltip("touchmove", x)

OnMouseLeave ==
    /\ BarRendered
    /\ hideTooltip
    /\ event' = [type |-> "mouseleave", wasOpen |-> tooltipOpen]
    /\ error' = "none"
    /\ UNCHANGED <<props, scales>>

(* a re-render with a new data prop: the memoized scales are rebuilt, the  *)
(* useTooltip state is kept                                                 *)
Render(a) ==
    /\ a # data
    /\ data' = a
    /\ dateScale' = makeDateScale(a, width, margin)
    /\ priceScale' = makePriceScale(a, height, margin)
    /\ event' = [type |-> "render"]
    /\ UNCHANGED <<width, height, margin, tooltip, error>>

Pointer ==
    \E x \in (0 - Overshoot)..(MaxWidth + Overshoot) :
        OnMouseMove(x) \/ OnTouchStart(x) \/ OnTouchMove(x)

Next == Pointer \/ OnMouseLeave

Spec == Init /\ [][Next]_vars

(* the data sequences of the re-rendering specification *)
RenderSeqs == {a \in DataSeqs : Len(a) <= MaxRenderLen}

NextRender == Next \/ \E a \in RenderSeqs : Render(a)

(* a mounted chart of full size with the default margin, whose parent      *)
(* replaces the data                                                       *)
InitRender ==
    /\ Init
    /\ data \in RenderSeqs
    /\ width = MaxWidth
    /\ height = MaxHeight
    /\ margin = [top |-> 0, right |-> 0, bottom |-> 0, left |-> 0]

SpecRender == InitRender /\ [][NextRender]_vars

----------------------------------------------------------------------------
(* Vocabulary of the properties *)

PointerEvent == event.type \in {"mousemove", "touchstart", "touchmove"}

(* the plot-relative x of the last pointer event *)
EventCurrX == event.x - margin.left

Elements(a) == {a[i] : i \in 1..Len(a)}

(* absolute time difference between a candidate Date and a point *)
TimeDist(x0, d) == Abs(d.date - x0.time)

(* the last pointer event sits exactly on the pixel of data[i] *)
AtPixelOf(i) == Rat(EventCurrX, 1) = dateApply(dateScale, getDate(data[i]))

(* the first index (1-based) whose date equals that of data[i] *)
FirstWithDateOf(i) ==
    CHOOSE j \in 1..i :
        /\ data[j].date = data[i].date
        /\ \A k \in 1..(j - 1) : data[k].date # data[i].date

(* the locator as section 4.2 of the specification words it: k elements    *)
(* precede the candidate date; before = a[k], after = a[k + 1] (1-based)   *)
RefLocate(a, x0) ==
    LET k == Cardinality({i \in 1..Len(a) : a[i].date < x0.time})
    IN  IF k = 0 THEN a[1]
        ELSE IF k = Len(a) THEN a[Len(a)]
        ELSE IF TimeDist(x0, a[k + 1]) < TimeDist(x0, a[k]) THEN a[k + 1]
        ELSE a[k]

----------------------------------------------------------------------------
(* C1: for sorted data of length >= 2 and a pointer pixel with             *)
(* 0 <= x - margin.left <= plotWidth, the point handleTooltip passes as    *)
(* tooltipData is an element of the data, never undefined.                 *)
C1_ResolvedPointInData ==
    (PointerEvent /\ IsSorted(data) /\ Len(data) >= 2 /\ EventCurrX \in 0..xMax)
        => /\ error = "none"
           /\ tooltipOpen
           /\ tooltipData # Undefined
           /\ tooltipData \in Elements(data)

(* a pointer at the right edge of the plot over three points: the search   *)
(* ends on the last index and the last point is resolved                   *)
C1_Witness ==
    /\ PointerEvent
    /\ Len(data) = 3
    /\ EventCurrX = xMax
    /\ event.index = Len(data) - 1
    /\ event.pick = Len(data) - 1
    /\ tooltipData = data[Len(data)]

(* C2 as claimed: a pointer exactly on the pixel of data[i] resolves to    *)
(* the element at index i itself, also when another element has its date.  *)
C2_RoundTripSameElement ==
    \A i \in 1..Len(data) :
        (PointerEvent /\ IsSorted(data) /\ AtPixelOf(i))
            => /\ error = "none"
               /\ tooltipData = data[i]

(* C2 amended: a pointer exactly on the pixel of data[i] resolves to the   *)
(* first element of the sequence that carries the date of data[i]; that is *)
(* data[i] itself when no earlier element has the same date.               *)
C2_RoundTripFirstOfDate ==
    \A i \in 1..Len(data) :
        (PointerEvent /\ IsSorted(data) /\ AtPixelOf(i))
            => /\ error = "none"
               /\ event.pick = FirstWithDateOf(i) - 1
               /\ tooltipData = data[FirstWithDateOf(i)]
               /\ (FirstWithDateOf(i) = i => tooltipData = data[i])

(* the pointer sits on the pixel of an interior point with a date of its   *)
(* own and of the last point, and on the pixel of a point that shares its  *)
(* date with an earlier one                                                *)
C2_Witness ==
    /\ PointerEvent
    /\ Len(data) = 3
    /\ margin.left > 0
    /\ \E i \in 2..Len(data) :
          /\ AtPixelOf(i)
          /\ event.pick = i - 1
          /\ data[i - 1].date # data[i].date
          /\ data[i - 1].price # data[i].price

(* C3 as claimed: a candidate date before the first point gives insertion  *)
(* index 0 with `before` undefined and resolves to the first point; one    *)
(* after the last point gives an index past the end and the last point.    *)
C3_ClampIndexZero ==
    (PointerEvent /\ IsSorted(data) /\ Len(data) > 0)
        => /\ event.x0.time < data[1].date
              => /\ event.index = 0
                 /\ event.d0 = Undefined
                 /\ tooltipData = data[1]
           /\ event.x0.time > data[Len(data)].date
              => /\ event.index = Len(data)
                 /\ tooltipData = data[Len(data)]

(* C3 amended: the search starts at index 1, so a candidate date before    *)
(* the first point gives index 1 with `before` the first point, which is   *)
(* the result; one after the last point gives index = length, `after`      *)
(* undefined, and the last point.                                          *)
C3_ClampToEndPoints ==
    (PointerEvent /\ IsSorted(data) /\ Len(data) > 0)
        => /\ error = "none"
           /\ event.x0.time < data[1].date
              => /\ event.index = 1
                 /\ event.d0 = data[1]
                 /\ event.pick = 0
                 /\ tooltipData = data[1]
           /\ event.x0.time > data[Len(data)].date
              => /\ event.index = Len(data)
                 /\ event.d1 = Undefined
                 /\ event.pick = Len(data) - 1
                 /\ tooltipData = data[Len(data)]

(* a touch left of the plot: the candidate date precedes the first of      *)
(* several points                                                          *)
C3_Witness ==
    /\ PointerEvent
    /\ Len(data) >= 2
    /\ EventCurrX < 0
    /\ event.x0.time < data[1].date
    /\ data[1].date < data[2].date
    /\ tooltipData = data[1]

(* C4: with before = data[index-1] and after = data[index] both present,   *)
(* the handler takes `after` exactly when |x0 - date(after)| <             *)
(* |x0 - date(before)|, and `before` otherwise (so on a tie).              *)
C4_SelectionRule ==
    (PointerEvent /\ IsSorted(data) /\ event.d1 # Undefined)
        => LET closerToAfter ==
                   TimeDist(event.x0, event.d1) < TimeDist(event.x0, event.d0)
           IN  /\ error = "none"
               /\ event.d0 = data[event.index]
               /\ event.d1 = data[event.index + 1]
               /\ event.pick = event.index <=> closerToAfter
               /\ event.pick = event.index - 1 <=> ~closerToAfter
               /\ tooltipData = IF closerToAfter THEN event.d1 ELSE event.d0

(* an exact tie between two points of different dates and prices *)
C4_Witness ==
    /\ PointerEvent
    /\ event.d1 # Undefined
    /\ TimeDist(event.x0, event.d1) = TimeDist(event.x0, event.d0)
    /\ event.d0.date < event.d1.date
    /\ event.d0.price # event.d1.price
    /\ tooltipData = event.d0

(* C5: on non-empty sorted data the resolved point minimises               *)
(* |date(p) - x0| over all points p of the sequence.                       *)
C5_GlobalNearest ==
    (PointerEvent /\ IsSorted(data) /\ Len(data) > 0)
        => /\ error = "none"
           /\ tooltipData \in Elements(data)
           /\ \A p \in Elements(data) :
                 TimeDist(event.x0, tooltipData) <= TimeDist(event.x0, p)

(* three points of different dates, the last of them strictly nearest *)
C5_Witness ==
    /\ PointerEvent
    /\ Len(data) = 3
    /\ data[1].date < data[2].date
    /\ data[2].date < data[3].date
    /\ tooltipData = data[3]
    /\ event.d1 # Undefined
    /\ \A i \in 1..2 : TimeDist(event.x0, data[3]) < TimeDist(event.x0, data[i])

(* C6: after onMouseLeave the tooltip is hidden: tooltipData is unset and  *)
(* neither the guide line and circles nor the label are rendered.          *)
C6_LeaveHides ==
    event.type = "mouseleave"
        => /\ ~tooltipOpen
           /\ tooltipData = Undefined
           /\ ~GuideRendered
           /\ ~LabelRendered

(* the pointer left while a tooltip was showing *)
C6_Witness ==
    /\ event.type = "mouseleave"
    /\ event.wasOpen
    /\ ~tooltipOpen

(* after a pointer event on non-empty data the tooltip shows the locator's *)
(* result for x - margin.left, at tooltipLeft = x and tooltipTop =         *)
(* priceScale(price)                                                       *)
C7_VisibleReflectsLastEvent ==
    (PointerEvent /\ Len(data) > 0)
        => /\ tooltipOpen
           /\ tooltipData = RefLocate(data, invert(dateScale, EventCurrX))
           /\ tooltipLeft = Rat(event.x, 1)
           /\ tooltipTop = scaleApply(priceScale, tooltipData.price)

(* a step that closes the tooltip is a mouseleave *)
C7_HiddenOnlyByLeave ==
    (tooltipOpen /\ ~tooltipOpen') => event'.type = "mouseleave"

(* C7: the tooltip starts hidden; after a pointer event on non-empty data, *)
(* from hidden or visible, it shows the locator's result for               *)
(* x - margin.left at tooltipLeft = x and tooltipTop = priceScale(price),  *)
(* a function of the data, the bounds and this event's x alone, whatever   *)
(* was shown before; it is hidden again only by a mouseleave.              *)
C7_TooltipStateMachine ==
    /\ ~tooltipOpen
    /\ tooltipData = Undefined
    /\ []C7_VisibleReflectsLastEvent
    /\ [][C7_HiddenOnlyByLeave]_vars

(* a tooltip showing a point other than the first, off the left edge *)
C7_Witness ==
    /\ PointerEvent
    /\ tooltipOpen
    /\ Len(data) >= 2
    /\ EventCurrX > 0
    /\ tooltipData # data[1]
    /\ tooltipData = RefLocate(data, invert(dateScale, EventCurrX))

(* C8 as claimed: with empty data a pointer event raises no error and the  *)
(* tooltip stays hidden.                                                   *)
C8_EmptyDataNoError ==
    (PointerEvent /\ Len(data) = 0)
        => /\ error = "none"
           /\ ~tooltipOpen

(* the lower and upper bound of the value scale's domain, and the least    *)
(* and greatest price of the data                                          *)
DomainLo == priceScale.domain[1]

DomainHi == priceScale.domain[2]

MinPrice == CHOOSE p \in {d.price : d \in Elements(data)} :
                \A d \in Elements(data) : p <= d.price

MaxPrice == CHOOSE p \in {d.price : d \in Elements(data)} :
                \A d \in Elements(data) : p >= d.price

PlotHeight == Max(height - margin.top - margin.bottom, 0)

(* C9 as claimed: the value scale maps the lower bound of its domain to    *)
(* pixel plotHeight and the upper bound to pixel 0.                        *)
C9_RangeIsPlotHeightToZero ==
    /\ scaleApply(priceScale, DomainLo) = Rat(PlotHeight, 1)
    /\ scaleApply(priceScale, DomainHi) = Rat(0, 1)
    /\ Len(data) > 0
          => RatLeq(scaleApply(priceScale, MaxPrice), scaleApply(priceScale, MinPrice))

(* C9 amended: the range is [plotHeight + margin.top, margin.top]; a       *)
(* domain with distinct bounds has its lower bound at pixel plotHeight +   *)
(* margin.top and its upper bound at pixel margin.top, a domain with equal *)
(* bounds is mapped to the middle of the range; the pixel of the greatest  *)
(* price is <= the pixel of the least price.                               *)
C9_RangeIsOffsetByTopMargin ==
    /\ priceScale.range = <<PlotHeight + margin.top, margin.top>>
    /\ DomainLo <= DomainHi
    /\ DomainLo < DomainHi
          => /\ scaleApply(priceScale, DomainLo) = Rat(PlotHeight + margin.top, 1)
             /\ scaleApply(priceScale, DomainHi) = Rat(margin.top, 1)
    /\ DomainLo = DomainHi
          => scaleApply(priceScale, DomainLo) = Rat(PlotHeight + 2 * margin.top, 2)
    /\ Len(data) > 0
          => /\ DomainLo <= MinPrice
             /\ MaxPrice <= DomainHi
             /\ RatLeq(scaleApply(priceScale, MaxPrice), scaleApply(priceScale, MinPrice))
             /\ RatLeq(Rat(margin.top, 1), scaleApply(priceScale, MaxPrice))
             /\ RatLeq(scaleApply(priceScale, MinPrice), Rat(PlotHeight + margin.top, 1))

(* a top margin, a plot of some height, a domain that nice() widened, and  *)
(* a tooltip placed with the scale                                         *)
C9_Witness ==
    /\ margin.top > 0
    /\ PlotHeight > 0
    /\ Len(data) > 0
    /\ DomainLo < MinPrice
    /\ MinPrice < MaxPrice
    /\ tooltipOpen
    /\ tooltipTop = scaleApply(priceScale, tooltipData.price)

(* C10 as claimed: whenever the tooltip is visible, its point is an        *)
(* element of the current data and its tooltipTop is the current           *)
(* priceScale of that point's price.                                       *)
C10_VisiblePointIsCurrent ==
    tooltipOpen
        => /\ tooltipData \in Elements(data)
           /\ tooltipTop = scaleApply(priceScale, tooltipData.price)

====
